---- MODULE Spec2Model ----
(***************************************************************************)
(* Model of the pdf-qa-app backend: the document routes                    *)
(* (app/api/routes/documents.py), the background index upload              *)
(* (app/core/azure_search.py), the bucket storage service                  *)
(* (app/core/s3_storage.py), the question-answering routes                 *)
(* (app/api/routes/qa.py, app/core/qa_chain.py), the document processor    *)
(* (app/core/document_processor.py) and the QA graph                       *)
(* (app/core/qa_graph.py).                                                 *)
(*                                                                         *)
(* Identifiers produced by uuid.uuid4() are modelled by the ordinal of the *)
(* uploaded file (files_seen + position): fresh for every file, so two     *)
(* files never share a storage name or a document id.                      *)
(***************************************************************************)
EXTENDS Integers, Sequences, FiniteSets, TLC

\* ---------------------------------------------------------------- bounds
MaxFiles == 4       \* files over all upload requests of SpecUpload
MaxDocs == 2        \* files over all upload requests of Spec
MaxChunks == 1      \* chunks a document is split into
MaxQLen == 2        \* characters of a question
MaxAsks == 1        \* question requests of SpecQA
MaxSplit == 3       \* chunks the text splitter makes of one text in SpecProcess
MaxBatches == 2     \* full batches the chunk list of one upload_chunks call fills
MaxSummaryChunks == 3 \* chunks of one generate_summary call
MaxRounds == 2      \* collapse rounds followed in one generate_summary call
MaxRequests == 3    \* add_message and clear_messages requests of SpecChat

\* ------------------------------------------------------- program constants
BatchSize == 100

None == "None"

NoDocument == 0     \* no document id

VARIABLES
    USE_S3_STORAGE,  \* settings.USE_S3_STORAGE, fixed for the process lifetime
    s3_faults,       \* the bucket operations that currently fail with a ClientError
    documents_db,    \* documents.py: the in-memory dict, document id -> entry
    storage,         \* the artifacts that exist: local files, temp files, bucket objects
    index,           \* the search index: document id -> number of its chunk records
    bg_tasks,        \* BackgroundTasks accepted with a response and not run yet
    task_result,     \* document id -> outcome of upload_chunks in its background task
    files_seen,      \* number of files received so far (the source of fresh uuids)
    last_upload,     \* the last upload request and its response
    last_delete,     \* the last delete request and its response
    deleted,         \* ids for which delete_document returned successfully
    chat_messages,   \* the Message collection: chat id -> its messages by timestamp
    memory,          \* qa.py's qa_service.memory: the messages of the buffer
    asks,            \* number of question requests handled so far
    last_qa,         \* the last question request, what it called, and its response
    memory_origin,   \* for each message of memory, the chat of the request that put it there
    last_summary,    \* the last summary request and its response
    summary_log,     \* document id -> what the summary requests for it did so far
    processed,       \* the outputs of DocumentProcessor.process_file so far
    graph_run,       \* one QAGraphRunner: its fields, the graph's position and state
    upload_run,      \* one call of AzureSearchService.upload_chunks, statement by statement
    summary_run,     \* one call of DocumentSummarizer.generate_summary and its chain
    ask_run,         \* one invocation of the chain of answer_question, branch by branch
    chats,           \* the Chat collection: chat id -> the chat document
    requests         \* the add_message and clear_messages requests received, each with its position

docVars == <<USE_S3_STORAGE, s3_faults, documents_db, storage, bg_tasks,
             task_result, files_seen, last_upload, last_delete, deleted>>

qaVars == <<chat_messages, memory, asks, last_qa, memory_origin>>

moreVars == <<upload_run, summary_run, ask_run, chats, requests>>

baseVars == <<docVars, index, qaVars, last_summary, summary_log, processed, graph_run>>

restVars == <<last_summary, summary_log, processed, graph_run, moreVars>>

vars == <<docVars, index, qaVars, restVars>>

\* ------------------------------------------------------------ input files
\* An uploaded file: its extension as sent by the client, whether its content
\* can be parsed, and the number of chunks the text splitter produces for it.
Extensions == {".pdf", ".PDF", ".csv", ".docx"}

Lower(ext) == IF ext = ".PDF" THEN ".pdf" ELSE ext

SupportedExt(ext) == Lower(ext) \in {".pdf", ".csv"}

Files ==
    { [ext |-> e, corrupt |-> c, nchunks |-> n] :
        e \in Extensions, c \in BOOLEAN, n \in {0, MaxChunks} }

\* Only meaningful combinations: an unsupported or unreadable file has no
\* chunks; a CSV always yields text (its column manifest), a PDF may have none;
\* one upper-case spelling is enough to exercise the lower-casing, and one
\* unreadable format is enough to exercise the extraction failure.
InputFiles ==
    { f \in Files :
        /\ (~SupportedExt(f.ext) => ~f.corrupt /\ f.nchunks = 0)
        /\ (f.corrupt => f.nchunks = 0 /\ f.ext = ".pdf")
        /\ (Lower(f.ext) = ".csv" /\ ~f.corrupt => f.nchunks >= 1)
        /\ (f.ext = ".PDF" => ~f.corrupt /\ f.nchunks >= 1) }

RECURSIVE SeqsUpTo(_, _)
SeqsUpTo(S, n) ==
    IF n <= 0 THEN {<<>>}
    ELSE LET shorter == SeqsUpTo(S, n - 1)
         IN  shorter \cup { Append(s, x) : s \in { t \in shorter : Len(t) = n - 1 }, x \in S }

Batches(n) == SeqsUpTo(InputFiles, n)

\* --------------------------------------------------------- storage service
S3Ops == {"put", "head", "delete"}

Artifact(kind, fid) == [kind |-> kind, fid |-> fid]

\* S3StorageService.upload_file: raises the ClientError, else the object exists.
upload_file(st, fid) ==
    IF "put" \in s3_faults
    THEN [raised |-> TRUE, storage |-> st]
    ELSE [raised |-> FALSE, storage |-> st \cup {Artifact("s3", fid)}]

\* S3StorageService.file_exists: False on 404, raises on any other ClientError.
file_exists(st, fid) ==
    IF "head" \in s3_faults
    THEN [raised |-> TRUE, value |-> FALSE]
    ELSE [raised |-> FALSE, value |-> Artifact("s3", fid) \in st]

\* S3StorageService.delete_file: the ClientError is swallowed and False returned.
delete_file(st, fid) ==
    IF "delete" \in s3_faults
    THEN [value |-> FALSE, storage |-> st]
    ELSE [value |-> TRUE, storage |-> st \ {Artifact("s3", fid)}]

\* ------------------------------------------------------ document processor
DocType(ext) == IF Lower(ext) = ".pdf" THEN "pdf" ELSE "csv"

\* DocumentProcessor.process_file: ValueError for an unreadable file, else the
\* chunks (their number) and the metadata (its type; its id is the fresh uuid).
process_file(f) ==
    IF f.corrupt
    THEN [raised |-> TRUE, msg |-> "Error processing file", nchunks |-> 0, type |-> DocType(f.ext)]
    ELSE [raised |-> FALSE, msg |-> None, nchunks |-> f.nchunks, type |-> DocType(f.ext)]

\* DocumentProcessor.summarize_document: a non-empty metadata-based sentence.
summarize_document(type) == <<"This is a document of type", type>>

\* str() of a natural number.
Digits == <<"0", "1", "2", "3", "4", "5", "6", "7", "8", "9">>

RECURSIVE Str(_)
Str(n) == IF n < 10 THEN <<Digits[n + 1]>> ELSE Str(n \div 10) \o <<Digits[(n % 10) + 1]>>

ChunkId_NoIndex(document_id, i) == Str(document_id) \o <<"_", "c", "h", "u", "n", "k", "_">>

\* Lines 84 and 158: f"{metadata['id']}_chunk_{i}", as a sequence of characters.
ChunkId(document_id, i) ==
    Str(document_id) \o <<"_", "c", "h", "u", "n", "k", "_">> \o Str(i)

\* Lines 81-92 and 155-166: the loop over enumerate(chunks), for the n chunks
\* the text splitter made.
MakeChunks(document_id, type, n) ==
    [k \in 1..n |->
        [id |-> ChunkId(document_id, k - 1),
         metadata |-> [type |-> type, document_id |-> document_id, chunk_index |-> k - 1]]]

\* The files given to process_file: any extension, readable or not, any
\* number of chunks (a CSV always yields text, so at least one chunk).
ProcessInputs ==
    { f \in [ext : Extensions, corrupt : BOOLEAN, nchunks : 0..MaxSplit] :
        (Lower(f.ext) = ".csv" /\ ~f.corrupt) => f.nchunks >= 1 }

\* One call of DocumentProcessor.process_file, whose uuid4 is document_id:
\* ValueError for an extension that is neither .pdf nor .csv and for an
\* unreadable file, else the chunks.
process_file_output(f, document_id) ==
    IF ~SupportedExt(f.ext) \/ process_file(f).raised
    THEN [file |-> f, document_id |-> document_id, raised |-> TRUE, chunks |-> <<>>]
    ELSE [file |-> f, document_id |-> document_id, raised |-> FALSE,
          chunks |-> MakeChunks(document_id, process_file(f).type, process_file(f).nchunks)]

ProcessFile ==
    /\ Len(processed) < MaxDocs
    /\ \E f \in ProcessInputs :
          processed' = Append(processed, process_file_output(f, Len(processed) + 1))
    /\ UNCHANGED <<docVars, index, qaVars, last_summary, summary_log, graph_run,
                   moreVars>>

\* ------------------------------------------------------------ upload route
UnsupportedReason ==
    [text |-> "Unsupported file type. Only PDF and CSV files are supported", cause |-> None]

ErrorReason(msg) == [text |-> "Error processing document", cause |-> msg]

\* An entry stored with a status that is none of the three the routes know.
NewEntry_Pending(fid, type, s3) ==
    [id |-> fid, filename |-> fid,
     path |-> Artifact(IF s3 THEN "s3" ELSE "local", fid),
     storage_type |-> IF s3 THEN "s3" ELSE "local",
     type |-> type, summary |-> summarize_document(type),
     status |-> "pending", error_message |-> None]

\* The entry upload_documents stores; the error_message key is absent until a
\* failure, which doc.get("error_message", None) reads as None.
NewEntry(fid, type, s3) ==
    [id |-> fid, filename |-> fid,
     path |-> Artifact(IF s3 THEN "s3" ELSE "local", fid),
     storage_type |-> IF s3 THEN "s3" ELSE "local",
     type |-> type, summary |-> summarize_document(type),
     status |-> "processing", error_message |-> None]

\* Lines 92-153, the try block after a successful save: extraction, summary,
\* registration, scheduling of the background task. L is the loop state.
Register(L, f, fid, st, s3) ==
    LET pf == process_file(f)
    IN  [L EXCEPT !.db = (fid :> NewEntry(fid, pf.type, s3)) @@ @,
                  !.storage = st,
                  !.tasks = Append(@, [document_id |-> fid, chunks |-> pf.nchunks]),
                  !.documents = Append(@, [id |-> fid, status |-> "processing"])]

\* Lines 155-175 with USE_S3_STORAGE: the except block (s3_key is set as soon
\* as the temp file is written) and the finally block. An exception raised by
\* file_exists leaves the except block and the handler; finally still runs.
ExceptS3(L, fid, st, msg) ==
    LET fe == file_exists(st, fid)
        temp == Artifact("temp", fid)
    IN  IF fe.raised
        THEN [L EXCEPT !.storage = st \ {temp}, !.aborted = TRUE]
        ELSE LET st2 == IF fe.value THEN delete_file(st, fid).storage ELSE st
             IN  [L EXCEPT !.storage = st2 \ {temp},
                           !.failed = Append(@, [file |-> fid, reason |-> ErrorReason(msg)])]

\* Lines 155-175 without USE_S3_STORAGE.
ExceptLocal(L, fid, st, msg) ==
    [L EXCEPT !.storage = st \ {Artifact("local", fid)},
              !.failed = Append(@, [file |-> fid, reason |-> ErrorReason(msg)])]

UploadFileS3(L, f, fid) ==
    LET temp == Artifact("temp", fid)
        st1 == L.storage \cup {temp}
        up == upload_file(st1, fid)
        pf == process_file(f)
    IN  IF up.raised THEN ExceptS3(L, fid, up.storage, "Error uploading file to S3")
        ELSE IF pf.raised THEN ExceptS3(L, fid, up.storage, pf.msg)
        ELSE Register(L, f, fid, up.storage \ {temp}, TRUE)

UploadFileLocal(L, f, fid) ==
    LET st1 == L.storage \cup {Artifact("local", fid)}
        pf == process_file(f)
    IN  IF pf.raised THEN ExceptLocal(L, fid, st1, pf.msg)
        ELSE Register(L, f, fid, st1, FALSE)

ExtensionCheck_Missing(ext) == TRUE

\* Line 84-85: the extension test of the upload loop.
ExtensionCheck(ext) == SupportedExt(ext)

\* Lines 82-175: the body of the loop for one file.
UploadOneFile(L, f, fid) ==
    IF ~ExtensionCheck(f.ext)
    THEN [L EXCEPT !.failed = Append(@, [file |-> fid, reason |-> UnsupportedReason])]
    ELSE IF USE_S3_STORAGE THEN UploadFileS3(L, f, fid)
         ELSE UploadFileLocal(L, f, fid)

RECURSIVE UploadLoop(_, _, _, _)
UploadLoop(L, files, i, base) ==
    IF L.aborted \/ i > Len(files) THEN L
    ELSE UploadLoop(UploadOneFile(L, files[i], base + i), files, i + 1, base)

NoUpload == [files |-> <<>>, base |-> 0, status |-> 0, documents |-> <<>>,
             failed_uploads |-> <<>>, detail |-> None]

\* upload_documents: the whole handler for one request. An exception that
\* leaves the handler is a 500 and the request's background tasks never run;
\* "All uploads failed" is a 400 carrying the list in a header.
upload_documents(files) ==
    LET base == files_seen
        L0 == [db |-> documents_db, storage |-> storage, tasks |-> <<>>,
               documents |-> <<>>, failed |-> <<>>, aborted |-> FALSE]
        L == UploadLoop(L0, files, 1, base)
    IN  IF Len(files) = 0
        THEN /\ last_upload' = [NoUpload EXCEPT !.status = 400, !.detail = "No files uploaded"]
             /\ UNCHANGED <<documents_db, storage, bg_tasks, files_seen>>
        ELSE /\ documents_db' = L.db
             /\ storage' = L.storage
             /\ files_seen' = files_seen + Len(files)
             /\ bg_tasks' = IF L.aborted THEN bg_tasks ELSE bg_tasks \o L.tasks
             /\ last_upload' =
                  IF L.aborted
                  THEN [NoUpload EXCEPT !.files = files, !.base = base, !.status = 500]
                  ELSE IF L.documents = <<>> /\ L.failed # <<>>
                  THEN [files |-> files, base |-> base, status |-> 400, documents |-> <<>>,
                        failed_uploads |-> L.failed, detail |-> "All uploads failed"]
                  ELSE [files |-> files, base |-> base, status |-> 200,
                        documents |-> L.documents, failed_uploads |-> L.failed,
                        detail |-> None]

\* ------------------------------------------------- background index upload
\* The failures the index backend can produce during one upload_chunks call:
\* the embedding call fails, or the write of batch k fails.
IndexFaults ==
    {[kind |-> "none", batch |-> 0], [kind |-> "embed", batch |-> 0]}
    \cup { [kind |-> "batch", batch |-> k] : k \in 1..((MaxChunks + BatchSize - 1) \div BatchSize) }

NumBatches(n) == (n + BatchSize - 1) \div BatchSize

Min(a, b) == IF a < b THEN a ELSE b

EmbeddingError == "embedding request failed"

BatchError == "upload_documents request failed"

\* AzureSearchService.upload_chunks, a plain (non-async) method: embeds every
\* chunk, then writes the records in slices of 100; any exception is logged
\* and re-raised; returns None. n is the number of chunks (every chunk made by
\* the document processor has text and id); committed is the number of
\* records written to the index.
upload_chunks(n, fault) ==
    IF n = 0 THEN [raised |-> FALSE, msg |-> None, value |-> None, committed |-> 0]
    ELSE IF fault.kind = "embed"
    THEN [raised |-> TRUE, msg |-> EmbeddingError, value |-> None, committed |-> 0]
    ELSE IF fault.kind = "batch" /\ fault.batch <= NumBatches(n)
    THEN [raised |-> TRUE, msg |-> BatchError, value |-> None,
          committed |-> Min(n, (fault.batch - 1) * BatchSize)]
    ELSE [raised |-> FALSE, msg |-> None, value |-> None, committed |-> n]

AwaitTypeError == "object NoneType can't be used in 'await' expression"

\* Python's await applied to a value: only an awaitable can be awaited; the
\* value None raises TypeError.
Await(value) ==
    IF value = None THEN [raised |-> TRUE, msg |-> AwaitTypeError]
    ELSE [raised |-> FALSE, msg |-> None]

\* An except branch that writes the entry whether or not the id is registered.
MarkError_Recreate(db, d, msg) ==
    (d :> [(IF d \in DOMAIN db THEN db[d] ELSE NewEntry(d, "pdf", FALSE))
              EXCEPT !.status = "error", !.error_message = msg]) @@ db

MarkError_NoMessage(db, d, msg) ==
    IF d \in DOMAIN db THEN [db EXCEPT ![d].status = "error"] ELSE db

\* Lines 61-66: the except branch of update_document_status.
MarkError(db, d, msg) ==
    IF d \in DOMAIN db
    THEN [db EXCEPT ![d].status = "error", ![d].error_message = msg]
    ELSE db

\* Lines 57-60: the branch after the awaited upload.
MarkReady(db, d) ==
    IF d \in DOMAIN db THEN [db EXCEPT ![d].status = "ready"] ELSE db

\* after_delete: the task ran when its document had already been deleted.
NoResult == [ran |-> FALSE, raised |-> FALSE, msg |-> None, after_delete |-> FALSE]

\* update_document_status(document_id, chunks): `await
\* azure_search_service.upload_chunks(chunks)` first runs the plain method to
\* completion and then awaits what it returned.
update_document_status(d, n, fault) ==
    LET up == upload_chunks(n, fault)
        aw == IF up.raised THEN [raised |-> TRUE, msg |-> up.msg] ELSE Await(up.value)
    IN  /\ index' = [index EXCEPT ![d] = up.committed]
        /\ task_result' = [task_result EXCEPT ![d] = [ran |-> TRUE, raised |-> up.raised, msg |-> up.msg,
                                                       after_delete |-> d \in deleted]]
        /\ documents_db' = IF aw.raised THEN MarkError(documents_db, d, aw.msg)
                           ELSE MarkReady(documents_db, d)

\* The oldest accepted background task runs, with whatever the index backend
\* does during it.
RunBackgroundTask ==
    /\ bg_tasks # <<>>
    /\ \E fault \in IndexFaults :
          update_document_status(Head(bg_tasks).document_id, Head(bg_tasks).chunks, fault)
    /\ bg_tasks' = Tail(bg_tasks)
    /\ UNCHANGED <<USE_S3_STORAGE, s3_faults, storage, files_seen, last_upload,
                   last_delete, deleted, qaVars, restVars>>

\* ------------------------------------------------------------ read routes
NotFound == [code |-> 404, detail |-> "Document not found"]

\* get_document_status
get_document_status(d) ==
    IF d \notin DOMAIN documents_db THEN NotFound
    ELSE [code |-> 200, document_id |-> d, status |-> documents_db[d].status,
          error_message |-> documents_db[d].error_message]

\* get_document: the DocumentResponse is built without a status argument.
get_document(d) ==
    IF d \notin DOMAIN documents_db THEN NotFound
    ELSE [code |-> 200, id |-> documents_db[d].id, filename |-> documents_db[d].filename,
          type |-> documents_db[d].type, summary |-> documents_db[d].summary,
          status |-> "ready"]

\* list_documents: one DocumentResponse per entry, each built without a status
\* argument, so each carries the default of the field.
list_documents ==
    [d \in DOMAIN documents_db |->
        [id |-> documents_db[d].id, filename |-> documents_db[d].filename,
         type |-> documents_db[d].type, summary |-> documents_db[d].summary,
         status |-> "ready"]]

\* get_document_summary: the stored summary is returned when it is non-empty.
get_document_summary(d) ==
    IF d \notin DOMAIN documents_db THEN NotFound
    ELSE [code |-> 200, document_id |-> d, summary |-> documents_db[d].summary]

\* ------------------------------------------------------------ delete route
Remove(db, d) == [x \in DOMAIN db \ {d} |-> db[x]]

\* delete_document: the result of delete_file is not looked at; an exception
\* of file_exists leaves the handler (500) before the entry is removed.
delete_document(d) ==
    IF d \notin DOMAIN documents_db
    THEN /\ last_delete' = [id |-> d, code |-> 404]
         /\ UNCHANGED <<documents_db, storage, deleted>>
    ELSE LET doc == documents_db[d]
             fe == file_exists(storage, doc.path.fid)
         IN  IF doc.storage_type = "s3" /\ USE_S3_STORAGE
             THEN IF fe.raised
                  THEN /\ last_delete' = [id |-> d, code |-> 500]
                       /\ UNCHANGED <<documents_db, storage, deleted>>
                  ELSE /\ storage' = IF fe.value THEN delete_file(storage, doc.path.fid).storage
                                     ELSE storage
                       /\ documents_db' = Remove(documents_db, d)
                       /\ last_delete' = [id |-> d, code |-> 200]
                       /\ deleted' = deleted \cup {d}
             ELSE /\ storage' = storage \ {doc.path}
                  /\ documents_db' = Remove(documents_db, d)
                  /\ last_delete' = [id |-> d, code |-> 200]
                  /\ deleted' = deleted \cup {d}

\* ------------------------------------------------------- question routes
\* A question is a string, modelled as a sequence of characters.
Whitespace == {" "}

Chars == Whitespace \cup {"a"}

Questions == SeqsUpTo(Chars, MaxQLen)

RECURSIVE LStrip(_)
LStrip(q) == IF q # <<>> /\ Head(q) \in Whitespace THEN LStrip(Tail(q)) ELSE q

RECURSIVE RStrip(_)
RStrip(q) ==
    IF q # <<>> /\ q[Len(q)] \in Whitespace THEN RStrip(SubSeq(q, 1, Len(q) - 1)) ELSE q

\* str.strip()
Strip(q) == RStrip(LStrip(q))

IsEmptyQuestion_NoStrip(q) == q = <<>>

\* qa.py lines 31 and 72: `not question or question.strip() == ""`.
IsEmptyQuestion(q) == q = <<>> \/ Strip(q) = <<>>

ChatIds == {"c1", "c2"}

\* Lines 35-45 / 76-86: the history string built from the chat's messages, or
\* None without a chat id or without messages.
Speaker(role) == IF role = "user" THEN "User" ELSE "Assistant"

NoHistory == <<>>

LoadChatHistory(chat_id) ==
    IF chat_id = None THEN NoHistory
    ELSE IF chat_messages[chat_id] = <<>> THEN NoHistory
    ELSE [k \in 1..Len(chat_messages[chat_id]) |->
            [speaker |-> Speaker(chat_messages[chat_id][k].role),
             content |-> chat_messages[chat_id][k].content]]

\* The records of the index, in the order of their ids: chunk i of document d
\* for i below the number of chunk records committed for d.
RECURSIVE RecordsFrom(_, _)
RecordsFrom(d, i) ==
    IF d \notin DOMAIN index THEN <<>>
    ELSE IF i >= index[d] THEN RecordsFrom(d + 1, 0)
    ELSE <<[document_id |-> d, chunk_index |-> i]>> \o RecordsFrom(d, i + 1)

IndexRecords == RecordsFrom(1, 0)

Rotate(s, r) == SubSeq(s, r + 1, Len(s)) \o SubSeq(s, 1, r)

\* The orders in which a similarity search ranks the records of the index for
\* a question: any record can be the best match.
Rankings == { Rotate(IndexRecords, r) : r \in 0..(IF IndexRecords = <<>> THEN 0 ELSE Len(IndexRecords) - 1) }

\* What the backends do during one request: the search fails, or the
\* completion fails, or neither.
Envs == { e \in [search_ok : BOOLEAN, llm_ok : BOOLEAN] : e.search_ok \/ e.llm_ok }

\* The number of results of a retriever made by as_retriever() without
\* search_kwargs.
RetrieverK == 4

RetrieverParams == {"top_k"}

\* AzureSearchService.create_langchain_retriever(self, top_k=5): a call with
\* any other keyword is a TypeError; the retriever made has no filter.
create_langchain_retriever(kwargs) ==
    IF kwargs \subseteq RetrieverParams
    THEN [raised |-> FALSE, msg |-> None, filter |-> NoDocument]
    ELSE [raised |-> TRUE, msg |-> "TypeError: unexpected keyword argument",
          filter |-> NoDocument]

\* The retriever of the general ask path.
GeneralRetriever == create_langchain_retriever({"top_k"})

FirstK(s, k) == SubSeq(s, 1, Min(k, Len(s)))

RECURSIVE FilterSeq(_, _)
FilterSeq(s, filter) ==
    IF s = <<>> THEN <<>>
    ELSE IF filter = NoDocument \/ Head(s).document_id = filter
    THEN <<Head(s)>> \o FilterSeq(Tail(s), filter)
    ELSE FilterSeq(Tail(s), filter)

\* One invocation of the retriever: the best RetrieverK records that pass its
\* filter.
Retrieve(retriever, ranking) == FirstK(FilterSeq(ranking, retriever.filter), RetrieverK)

NoRelevant == "No relevant documents found."

NoContext == [text |-> None, docs |-> <<>>]

create_context_NoSentinel(docs) ==
    [text |-> IF docs = <<>> THEN "" ELSE "Document: .. Content: ..", docs |-> docs]

\* QAService.create_context
create_context(docs) ==
    IF docs = <<>> THEN [text |-> NoRelevant, docs |-> <<>>]
    ELSE [text |-> "Document: .. Content: ..", docs |-> docs]

\* The content of a message of the memory: a question, an answer, an injected
\* history, or the reference to a chat.
Content(kind, question, history, chat) ==
    [kind |-> kind, question |-> question, history |-> history, chat |-> chat]

Human(content) == [role |-> "human", content |-> content]

AI(content) == [role |-> "ai", content |-> content]

inject_chat_history_NoClear(mem, chat_id, history) ==
    IF history # NoHistory THEN Append(mem, Human(Content("history", <<>>, history, None)))
    ELSE IF chat_id # None
    THEN <<Human(Content("Referring to chat history", <<>>, NoHistory, chat_id))>>
    ELSE mem

\* QAService._inject_chat_history
inject_chat_history(mem, chat_id, history) ==
    IF history # NoHistory THEN <<Human(Content("history", <<>>, history, None))>>
    ELSE IF chat_id # None
    THEN <<Human(Content("Referring to chat history", <<>>, NoHistory, chat_id))>>
    ELSE mem

save_context_Skipped(mem, question, answer) == mem

\* ConversationBufferMemory.save_context
save_context(mem, question, answer) ==
    mem \o <<Human(Content("question", question, NoHistory, None)),
             AI(Content(answer, <<>>, NoHistory, None))>>

\* The text of a record of the index.
PageContent(doc) == <<"text of chunk", doc.chunk_index, "of document", doc.document_id>>

\* Lines 155 and 198: `[{"text": doc.page_content, "metadata": doc.metadata}
\* for doc in result["source_documents"]]`.
Sources(docs) ==
    [k \in 1..Len(docs) |-> [text |-> PageContent(docs[k]), metadata |-> docs[k]]]

NoCalls == [history_reads |-> 0, injections |-> 0, retrievals |-> 0, completions |-> 0, saves |-> 0]

Answer == "answer"

\* qa_chain.py lines 140-160 and 183-203: the chain (the retriever is invoked
\* once for the context and once for the source documents, the model once),
\* then the saving of the turn. mem is the memory after the injection. Nothing
\* writes to the index during a request of the specifications that use this
\* operator, so both invocations see the same ranking.
RunChain(retriever, question, mem, ranking, env) ==
    LET context_docs == Retrieve(retriever, ranking)
        source_docs == Retrieve(retriever, ranking)
        base == [raised |-> TRUE, msg |-> None, answer |-> None, sources |-> <<>>,
                 context |-> NoContext, prompt_history |-> <<>>, memory |-> mem,
                 filter |-> retriever.filter,
                 calls |-> [NoCalls EXCEPT !.injections = 1, !.retrievals = 2]]
    IN  IF ~env.search_ok THEN [base EXCEPT !.msg = "search request failed"]
        ELSE IF ~env.llm_ok
        THEN [base EXCEPT !.msg = "completion request failed", !.calls.completions = 1,
                          !.context = create_context(context_docs), !.prompt_history = mem]
        ELSE [base EXCEPT !.raised = FALSE, !.answer = Answer,
                          !.sources = Sources(source_docs),
                          !.context = create_context(context_docs),
                          !.prompt_history = mem,
                          !.memory = save_context(mem, question, Answer),
                          !.calls.completions = 1, !.calls.saves = 1]

Raised(mem, msg) ==
    [raised |-> TRUE, msg |-> msg, answer |-> None, sources |-> <<>>,
     context |-> NoContext, prompt_history |-> <<>>, memory |-> mem,
     filter |-> NoDocument, calls |-> NoCalls]

\* The outcomes of invoking the chain: one for each ranking the search can
\* produce and each behaviour of the backends during the request.
ChainOutcomes(retriever, question, mem) ==
    { RunChain(retriever, question, mem, rk, env) : rk \in Rankings, env \in Envs }

\* QAService.answer_question: the set of its possible outcomes.
answer_question(question, chat_id, chat_history) ==
    LET retriever == create_langchain_retriever({"top_k"})
    IN  IF retriever.raised THEN {Raised(memory, retriever.msg)}
        ELSE ChainOutcomes(retriever, question,
                           inject_chat_history(memory, chat_id, chat_history))

\* QAService.answer_document_question: the set of its possible outcomes.
answer_document_question(question, document_id, chat_id, chat_history) ==
    LET retriever == create_langchain_retriever({"top_k", "document_id"})
    IN  IF retriever.raised THEN {Raised(memory, retriever.msg)}
        ELSE ChainOutcomes(retriever, question,
                           inject_chat_history(memory, chat_id, chat_history))

\* HTTPException(status_code=400, detail="Question cannot be empty")
EmptyQuestionError == [code |-> 400, detail |-> "Question cannot be empty"]

RouteExcept_Degraded(exc) ==
    [code |-> 200, detail |-> [text |-> "Error answering question", cause |-> exc]]

\* qa.py lines 58-59 and 98-99: `except Exception` around the whole handler
\* body (fastapi.HTTPException is an Exception): whatever was raised inside,
\* the response is a 500 whose detail quotes it.
RouteExcept(exc) == [code |-> 500, detail |-> [text |-> "Error answering question", cause |-> exc]]

NoDetail == [text |-> None, cause |-> None]

NoQA == [kind |-> "none", question |-> <<>>, chat_id |-> None, document_id |-> NoDocument,
         code |-> 0, detail |-> NoDetail, answer |-> None, sources |-> <<>>,
         context |-> NoContext, prompt_history |-> <<>>, filter |-> NoDocument,
         calls |-> NoCalls]

\* The response of a route whose service call returned or raised r.
Respond(kind, question, chat_id, document_id, r, reads) ==
    [kind |-> kind, question |-> question, chat_id |-> chat_id, document_id |-> document_id,
     code |-> IF r.raised THEN RouteExcept(r.msg).code ELSE 200,
     detail |-> IF r.raised THEN RouteExcept(r.msg).detail ELSE NoDetail,
     answer |-> r.answer, sources |-> r.sources, context |-> r.context,
     prompt_history |-> r.prompt_history,
     filter |-> r.filter,
     calls |-> [r.calls EXCEPT !.history_reads = reads]]

Rejected(kind, question, chat_id, document_id) ==
    [NoQA EXCEPT !.kind = kind, !.question = question, !.chat_id = chat_id,
                 !.document_id = document_id,
                 !.code = RouteExcept(EmptyQuestionError.detail).code,
                 !.detail = RouteExcept(EmptyQuestionError.detail).detail]

Reads(chat_id) == IF chat_id = None THEN 0 ELSE 1

\* The chats of the messages of the memory after _inject_chat_history: the one
\* injected message replaces whatever the memory held.
OriginAfterInject(origin, chat_id, history) ==
    IF history # NoHistory \/ chat_id # None THEN <<chat_id>> ELSE origin

\* The chats of the messages of the memory after a service call that returned
\* or raised r: save_context appends the two messages of the request.
OriginAfter(origin, chat_id, history, r) ==
    LET injected == IF r.calls.injections = 0 THEN origin
                    ELSE OriginAfterInject(origin, chat_id, history)
    IN  IF r.calls.saves = 0 THEN injected ELSE injected \o <<chat_id, chat_id>>

\* ask_question
ask_question(question, chat_id) ==
    IF IsEmptyQuestion(question)
    THEN /\ last_qa' = Rejected("ask", question, chat_id, NoDocument)
         /\ UNCHANGED <<memory, memory_origin>>
    ELSE \E r \in answer_question(question, chat_id, LoadChatHistory(chat_id)) :
             /\ last_qa' = Respond("ask", question, chat_id, NoDocument, r, Reads(chat_id))
             /\ memory' = r.memory
             /\ memory_origin' = OriginAfter(memory_origin, chat_id, LoadChatHistory(chat_id), r)

\* ask_document_question
ask_document_question(document_id, question, chat_id) ==
    IF IsEmptyQuestion(question)
    THEN /\ last_qa' = Rejected("doc", question, chat_id, document_id)
         /\ UNCHANGED <<memory, memory_origin>>
    ELSE \E r \in answer_document_question(question, document_id, chat_id,
                                            LoadChatHistory(chat_id)) :
             /\ last_qa' = Respond("doc", question, chat_id, document_id, r, Reads(chat_id))
             /\ memory' = r.memory
             /\ memory_origin' = OriginAfter(memory_origin, chat_id, LoadChatHistory(chat_id), r)

AskRequest ==
    /\ asks < MaxAsks
    /\ \E q \in Questions, c \in ChatIds \cup {None} : ask_question(q, c)
    /\ asks' = asks + 1
    /\ UNCHANGED <<docVars, index, chat_messages, restVars>>

AskDocumentRequest ==
    /\ asks < MaxAsks
    /\ \E d \in DOMAIN index, q \in Questions, c \in ChatIds \cup {None} :
          ask_document_question(d, q, c)
    /\ asks' = asks + 1
    /\ UNCHANGED <<docVars, index, chat_messages, restVars>>

\* clear_qa_memory
ClearMemoryRequest ==
    /\ memory' = <<>>
    /\ memory_origin' = <<>>
    /\ UNCHANGED <<docVars, index, chat_messages, asks, last_qa, restVars>>

\* ------------------------------------------------------------ QA graph
\* qa_graph.py lines 56-64: the nodes, the edges and the entry point of the
\* graph that run_sync builds.
END == "__end__"

EntryPoint == "retrieve_docs"

GraphEdges_SkipBuildContext ==
    {<<"retrieve_docs", "run_llm">>, <<"build_context", "run_llm">>, <<"run_llm", END>>}

GraphEdges ==
    {<<"retrieve_docs", "build_context">>, <<"build_context", "run_llm">>, <<"run_llm", END>>}

\* The node the compiled graph runs after node n.
Successor(n) == CHOOSE m \in {"retrieve_docs", "build_context", "run_llm", END} : <<n, m>> \in GraphEdges

NoGraphCalls == [retrievals |-> 0, contexts |-> 0, completions |-> 0]

\* Lines 68-74: initial_state.
InitialState(runner) ==
    [question |-> runner.question, chat_history |-> runner.chat_history,
     docs |-> <<>>, context |-> [text |-> "", docs |-> <<>>], answer |-> ""]

\* A QAGraphRunner made for a question and a chat history, at position node of
\* run_sync, with the nodes executed so far and the calls they made.
Runner(question, chat_history, node) ==
    [question |-> question, chat_history |-> chat_history, node |-> node,
     state |-> InitialState([question |-> question, chat_history |-> chat_history]),
     executed |-> <<>>, calls |-> NoGraphCalls, context_failed |-> FALSE,
     result |-> [raised |-> FALSE, msg |-> None, answer |-> "", docs |-> <<>>]]

NoRun == Runner(<<>>, NoHistory, "idle")

\* An exception in a node leaves app.invoke; run_sync logs it and re-raises.
GraphRaise(run, node, msg) ==
    [run EXCEPT !.node = "raised", !.executed = Append(@, node),
                !.result = [raised |-> TRUE, msg |-> msg, answer |-> "", docs |-> <<>>]]

\* Lines 34-37: the node retrieve_docs.
retrieve_docs(run, ranking, search_ok) ==
    LET counted == [run EXCEPT !.calls.retrievals = @ + 1]
    IN  IF ~search_ok THEN GraphRaise(counted, "retrieve_docs", "search request failed")
        ELSE [counted EXCEPT !.state.docs = Retrieve(GeneralRetriever, ranking),
                             !.executed = Append(@, "retrieve_docs"),
                             !.node = Successor("retrieve_docs")]

CreateContextParams == {"docs"}

\* A call of QAService.create_context(self, docs) with the given keywords: a
\* keyword that is no parameter is a TypeError; docs=None is an empty result.
CallCreateContext(kwargs, docs) ==
    IF kwargs \subseteq CreateContextParams
    THEN [raised |-> FALSE, msg |-> None, context |-> create_context(docs)]
    ELSE [raised |-> TRUE, msg |-> "TypeError: unexpected keyword argument",
          context |-> [text |-> "", docs |-> <<>>]]

\* Lines 39-45: the node build_context. context_ok tells whether
\* create_context(state["docs"]) returns; it can only raise on a document.
build_context(run, context_ok) ==
    LET failed == ~context_ok /\ run.state.docs # <<>>
        fallback == CallCreateContext({"docs", "question"}, <<>>)
        counted == [run EXCEPT !.calls.contexts = IF failed THEN @ + 2 ELSE @ + 1,
                               !.context_failed = failed]
    IN  IF ~failed
        THEN [counted EXCEPT !.state.context = create_context(run.state.docs),
                             !.executed = Append(@, "build_context"),
                             !.node = Successor("build_context")]
        ELSE IF fallback.raised THEN GraphRaise(counted, "build_context", fallback.msg)
        ELSE [counted EXCEPT !.state.context = fallback.context,
                             !.executed = Append(@, "build_context"),
                             !.node = Successor("build_context")]

\* Lines 47-54: the node run_llm.
run_llm(run, llm_ok) ==
    LET counted == [run EXCEPT !.calls.completions = @ + 1]
    IN  IF ~llm_ok THEN GraphRaise(counted, "run_llm", "completion request failed")
        ELSE [counted EXCEPT !.state.answer = Answer,
                             !.executed = Append(@, "run_llm"),
                             !.node = Successor("run_llm")]

RetrieveDocs ==
    /\ graph_run.node = "retrieve_docs"
    /\ \E rk \in Rankings, ok \in BOOLEAN : graph_run' = retrieve_docs(graph_run, rk, ok)
    /\ UNCHANGED <<docVars, index, qaVars, last_summary, summary_log, processed,
                   moreVars>>

BuildContext ==
    /\ graph_run.node = "build_context"
    /\ \E ok \in BOOLEAN : graph_run' = build_context(graph_run, ok)
    /\ UNCHANGED <<docVars, index, qaVars, last_summary, summary_log, processed,
                   moreVars>>

RunLlm ==
    /\ graph_run.node = "run_llm"
    /\ \E ok \in BOOLEAN : graph_run' = run_llm(graph_run, ok)
    /\ UNCHANGED <<docVars, index, qaVars, last_summary, summary_log, processed,
                   moreVars>>

\* Lines 76-77: app.invoke returned; run_sync returns the answer and the docs.
ReturnResult ==
    /\ graph_run.node = END
    /\ graph_run' = [graph_run EXCEPT !.node = "returned",
                                      !.result = [raised |-> FALSE, msg |-> None,
                                                  answer |-> graph_run.state.answer,
                                                  docs |-> graph_run.state.docs]]
    /\ UNCHANGED <<docVars, index, qaVars, last_summary, summary_log, processed,
                   moreVars>>

\* ----------------------------------------------------------- summary route
\* The empty string: no summary.
NoSummary == <<>>

SummaryError == <<"Could not generate summary due to an error.">>

SummaryNoContent == <<"Could not generate summary. No document content found.">>

\* QAService.generate_summary: the retriever is created with top_k and
\* document_id, the documents are retrieved, the model is invoked; every
\* exception is caught and answered with a fixed sentence.
generate_summary(document_id, ranking, env) ==
    LET retriever == create_langchain_retriever({"top_k", "document_id"})
        docs == Retrieve(retriever, ranking)
    IN  IF retriever.raised THEN [summary |-> SummaryError, completions |-> 0]
        ELSE IF ~env.search_ok THEN [summary |-> SummaryError, completions |-> 0]
        ELSE IF docs = <<>> THEN [summary |-> SummaryNoContent, completions |-> 0]
        ELSE IF ~env.llm_ok THEN [summary |-> SummaryError, completions |-> 1]
        ELSE [summary |-> <<"summary of", document_id>>, completions |-> 1]

HasSummary_Never(doc) == FALSE

\* Line 266: `if doc.get("summary")`.
HasSummary(doc) == doc.summary # NoSummary

NoSummaryRequest ==
    [id |-> NoDocument, code |-> 0, summary |-> NoSummary, repeat |-> FALSE,
     generated |-> FALSE, completions |-> 0]

NoSummaryLog == [served |-> FALSE, first |-> NoSummary, generations |-> 0]

\* get_document_summary as a request: the stored summary, or a generated one
\* that is stored. The log keeps the first summary served for the document
\* and the number of generate_summary calls made for it.
summary_request(d, ranking, env) ==
    IF d \notin DOMAIN documents_db
    THEN /\ last_summary' = [NoSummaryRequest EXCEPT !.id = d, !.code = 404]
         /\ UNCHANGED <<documents_db, summary_log>>
    ELSE LET doc == documents_db[d]
             cached == HasSummary(doc)
             g == generate_summary(d, ranking, env)
             summary == IF cached THEN doc.summary ELSE g.summary
         IN  /\ documents_db' = [documents_db EXCEPT ![d].summary = summary]
             /\ last_summary' = [id |-> d, code |-> 200, summary |-> summary,
                                 repeat |-> summary_log[d].served,
                                 generated |-> ~cached,
                                 completions |-> IF cached THEN 0 ELSE g.completions]
             /\ summary_log' =
                  [summary_log EXCEPT ![d] =
                      [served |-> TRUE,
                       first |-> IF @.served THEN @.first ELSE summary,
                       generations |-> IF cached THEN @.generations ELSE @.generations + 1]]

SummaryRequest ==
    /\ \E d \in DOMAIN summary_log, rk \in Rankings, env \in Envs : summary_request(d, rk, env)
    /\ UNCHANGED <<USE_S3_STORAGE, s3_faults, storage, index, bg_tasks, task_result,
                   files_seen, last_upload, last_delete, deleted, qaVars,
                   processed, graph_run, moreVars>>

\* ------------------------------------------- upload_chunks, batch by batch
\* The chunk lists one call receives: their lengths lie around the multiples
\* of the batch size, and a few of their chunks lack the content field or the
\* id field.  A chunk is named by its position in the list.
ChunkCounts ==
    { n \in 0..(MaxBatches * BatchSize) :
        \E b \in 0..MaxBatches : n \in {b * BatchSize - 1, b * BatchSize, b * BatchSize + 1} }

ChunkLists ==
    UNION { { [n |-> n, no_text |-> nt \cap (1..n), no_id |-> ni \cap (1..n)] :
                nt \in {{}, {1}}, ni \in {{}, {BatchSize}, {n}} } : n \in ChunkCounts }

\* The exception a failed call leaves the method with.  Neither the embedding
\* client nor the search client knows the loop of upload_chunks, so what they
\* raise names no batch (batch = NoBatch).
NoBatch == 0

NoError == [message |-> None, batch |-> NoBatch]

RaisedBy(message) == [message |-> message, batch |-> NoBatch]

\* The first loop of upload_chunks: a chunk without content is skipped before
\* its embedding, a chunk without id after it; the others become documents,
\* in the order of the list.
build_documents(chunks) ==
    SelectSeq([p \in 1..chunks.n |-> p],
              LAMBDA p : p \notin chunks.no_text /\ p \notin chunks.no_id)

\* documents[i:i+101]: consecutive slices would share a record.
batch_slice_Overlap(documents, i) ==
    SubSeq(documents, i + 1, Min(i + BatchSize + 1, Len(documents)))

\* documents[i:i+100]
batch_slice(documents, i) ==
    SubSeq(documents, i + 1, Min(i + BatchSize, Len(documents)))

\* A handler that notes the exception and lets the loop go on: the failed
\* batch would be submitted again.
upload_except_Retry(run, e) ==
    [run EXCEPT !.error = e]

\* `except Exception as e: logger.error(...); raise`: the exception leaves the
\* method as it was raised; nothing is undone and nothing is tried again.
upload_except(run, e) ==
    [run EXCEPT !.pc = "raised", !.error = e]

NoUploadRun ==
    [chunks |-> [n |-> 0, no_text |-> {}, no_id |-> {}], pc |-> "idle",
     documents |-> <<>>, i |-> 0, submitted |-> <<>>, written |-> <<>>,
     error |-> NoError]

StartUpload(chunks) == [NoUploadRun EXCEPT !.chunks = chunks, !.pc = "build"]

\* The loop over the chunks, with the embedding call of every chunk that has
\* content.
EmbedChunks ==
    /\ upload_run.pc = "build"
    /\ LET documents == build_documents(upload_run.chunks)
           embedded == (1..upload_run.chunks.n) \ upload_run.chunks.no_text
       IN  \E ok \in {o \in BOOLEAN : o \/ embedded # {}} :
              upload_run' =
                 IF ~ok THEN upload_except(upload_run, RaisedBy(EmbeddingError))
                 ELSE [upload_run EXCEPT
                          !.documents = documents,
                          !.pc = IF documents = <<>> THEN "returned" ELSE "batches"]
    /\ UNCHANGED <<baseVars, summary_run, ask_run, chats, requests>>

\* One pass of `for i in range(0, len(documents), 100)`: one upload_documents
\* call with the batch at offset i.
WriteBatch ==
    /\ upload_run.pc = "batches"
    /\ LET batch == batch_slice(upload_run.documents, upload_run.i)
           sent == [upload_run EXCEPT !.submitted = Append(@, batch)]
       IN  \E ok \in BOOLEAN :
              upload_run' =
                 IF ~ok THEN upload_except(sent, RaisedBy(BatchError))
                 ELSE [sent EXCEPT
                          !.written = Append(@, batch),
                          !.i = @ + BatchSize,
                          !.pc = IF upload_run.i + BatchSize >= Len(upload_run.documents)
                                 THEN "returned" ELSE "batches"]
    /\ UNCHANGED <<baseVars, summary_run, ask_run, chats, requests>>


\* ------------------------------------------------------ document summarizer
\* Lengths are counted in thousands of tokens.  _setup_summary_chain passes
\* load_summarize_chain the model, the chain type and the two prompts and
\* nothing else: the reduce step keeps the chain's own budget of 3000 tokens
\* and has no limit on its collapse rounds.
token_max == 3

NoCeiling == 0

collapse_max_retries == NoCeiling

\* The lengths of a chunk and of a text the model returns.
DocLens == 1..2

RECURSIVE Total(_)
Total(docs) == IF docs = <<>> THEN 0 ELSE Head(docs) + Total(Tail(docs))

\* The chain's grouping of the working list: documents are taken in order
\* into a group until it exceeds the budget, and then the group without its
\* last document is closed.  A single document over the budget raises
\* (groups = <<>> stands for that).
RECURSIVE split_list_of_docs(_, _, _)
split_list_of_docs(docs, sub, groups) ==
    IF docs = <<>> THEN Append(groups, sub)
    ELSE LET next == Append(sub, Head(docs))
         IN  IF Total(next) > token_max
             THEN IF Len(next) = 1 THEN <<>>
                  ELSE split_list_of_docs(Tail(docs), <<Head(docs)>>, Append(groups, sub))
             ELSE split_list_of_docs(Tail(docs), next, groups)

EnhancedSummary == "summary_result + document information"

FallbackSummary == "A detailed summary could not be generated."

NoSummaryRun ==
    [chunks |-> <<>>, pc |-> "idle", docs |-> <<>>, rounds |-> 0,
     llm_calls |-> 0, finalized |-> 0, result |-> None]

\* generate_summary(chunks, metadata) up to summary_chain.run(langchain_docs).
StartSummary(chunks) ==
    [NoSummaryRun EXCEPT !.chunks = chunks, !.docs = chunks, !.pc = "map"]

\* `except Exception`: whatever the chain raised, generate_summary returns
\* the fallback summary made from the metadata.
summary_except(run) ==
    [run EXCEPT !.pc = "returned", !.result = FallbackSummary]

\* The map step: one model call per document; the working list becomes the
\* list of the texts returned.  The step may raise, also on an empty list.
MapChunks ==
    /\ summary_run.pc = "map"
    /\ LET n == Len(summary_run.docs)
       IN  \E outs \in [1..n -> DocLens], ok \in BOOLEAN :
              summary_run' =
                 IF ~ok
                 THEN summary_except([summary_run EXCEPT
                                         !.llm_calls = @ + (IF n = 0 THEN 0 ELSE 1)])
                 ELSE [summary_run EXCEPT !.docs = outs, !.llm_calls = @ + n,
                                          !.pc = "reduce"]
    /\ UNCHANGED <<baseVars, upload_run, ask_run, chats, requests>>

\* One pass of the collapse loop, entered while the working list is over the
\* budget: every group is reduced to one text by one model call, the round is
\* counted, and the loop raises when a configured limit is reached.
CollapseRound ==
    /\ summary_run.pc = "reduce"
    /\ Total(summary_run.docs) > token_max
    /\ summary_run.rounds < MaxRounds
    /\ LET groups == split_list_of_docs(summary_run.docs, <<>>, <<>>)
           n == Len(groups)
       IN  \E outs \in [1..n -> DocLens], ok \in BOOLEAN :
              summary_run' =
                 IF n = 0 \/ ~ok
                 THEN summary_except([summary_run EXCEPT
                                         !.llm_calls = @ + (IF n = 0 THEN 0 ELSE 1)])
                 ELSE LET after == [summary_run EXCEPT !.docs = outs,
                                                       !.llm_calls = @ + n,
                                                       !.rounds = @ + 1]
                      IN  IF collapse_max_retries # NoCeiling
                             /\ after.rounds = collapse_max_retries
                          THEN summary_except(after)
                          ELSE after
    /\ UNCHANGED <<baseVars, upload_run, ask_run, chats, requests>>

\* The final combine step, run once the working list is within the budget:
\* one model call on the joined list (an empty list included), and
\* generate_summary returns its text with the metadata lines added.
Finalize ==
    /\ summary_run.pc = "reduce"
    /\ Total(summary_run.docs) <= token_max
    /\ \E ok \in BOOLEAN :
          summary_run' =
             LET called == [summary_run EXCEPT !.llm_calls = @ + 1]
             IN  IF ~ok THEN summary_except(called)
                 ELSE [called EXCEPT !.finalized = @ + 1, !.pc = "returned",
                                     !.result = EnhancedSummary]
    /\ UNCHANGED <<baseVars, upload_run, ask_run, chats, requests>>


\* ------------------------------------------- the chain, branch by branch
\* answer_question invokes a RunnableParallel with two branches that each
\* invoke general_retriever: "answer" (retriever | create_context, then the
\* prompt and the model) and "source_documents".  The two searches are two
\* requests to the search service, answered from the index as it is when
\* each arrives.
NoAskRun ==
    [pc |-> "idle", question |-> <<>>, rotation |-> 0, retrieved |-> {},
     context_docs |-> <<>>, source_docs |-> <<>>,
     answer |-> None, context |-> NoContext, sources |-> <<>>]

StartAsk(question, rotation) ==
    [NoAskRun EXCEPT !.pc = "chain", !.question = question, !.rotation = rotation]

\* The ranking of the records now in the index for the question of the run.
RankingNow(rotation) ==
    IF IndexRecords = <<>> THEN <<>>
    ELSE Rotate(IndexRecords, rotation % Len(IndexRecords))

\* The retriever of the "answer" branch.
RetrieveContext ==
    /\ ask_run.pc = "chain"
    /\ "context" \notin ask_run.retrieved
    /\ ask_run' = [ask_run EXCEPT
                      !.context_docs = Retrieve(GeneralRetriever, RankingNow(ask_run.rotation)),
                      !.retrieved = @ \cup {"context"}]
    /\ UNCHANGED <<baseVars, upload_run, summary_run, chats, requests>>

\* The retriever of the "source_documents" branch.
RetrieveSources ==
    /\ ask_run.pc = "chain"
    /\ "source_documents" \notin ask_run.retrieved
    /\ ask_run' = [ask_run EXCEPT
                      !.source_docs = Retrieve(GeneralRetriever, RankingNow(ask_run.rotation)),
                      !.retrieved = @ \cup {"source_documents"}]
    /\ UNCHANGED <<baseVars, upload_run, summary_run, chats, requests>>

\* The rest of the "answer" branch and lines 152-160: the context, the model
\* call, and the sources made from result["source_documents"].
CompleteChain ==
    /\ ask_run.pc = "chain"
    /\ ask_run.retrieved = {"context", "source_documents"}
    /\ ask_run' = [ask_run EXCEPT
                      !.pc = "returned",
                      !.answer = Answer,
                      !.context = create_context(ask_run.context_docs),
                      !.sources = Sources(ask_run.source_docs)]
    /\ UNCHANGED <<baseVars, upload_run, summary_run, chats, requests>>


\* ------------------------------------------------------------ chat routes
\* The Chat documents of the chats that exist, each with the message_count
\* that matches its stored messages.
NewChat(count) == [message_count |-> count]

\* The ids requests come with: the chats that exist and one that does not.
UnknownChat == "c0"

RequestChats == ChatIds \cup {UnknownChat}

NewMessage == [role |-> "user", content |-> "a"]

\* A request as received: the handler is before its first await.
NewRequest(kind, chat_id) == [kind |-> kind, chat_id |-> chat_id, pc |-> "get", code |-> 0]

\* A client sends an add_message or a clear_messages request.
ReceiveRequest ==
    /\ Len(requests) < MaxRequests
    /\ \E kind \in {"add", "clear"}, c \in RequestChats :
          requests' = Append(requests, NewRequest(kind, c))
    /\ UNCHANGED <<docVars, index, qaVars, last_summary, summary_log, processed,
                   graph_run, upload_run, summary_run, ask_run, chats>>

\* `chat = await Chat.get(chat_id)` and the 404 of an unknown chat, in both
\* handlers.
GetChat ==
    \E i \in 1..Len(requests) :
        /\ requests[i].pc = "get"
        /\ LET r == requests[i]
           IN  requests' = [requests EXCEPT ![i] =
                               IF r.chat_id \in DOMAIN chats
                               THEN [r EXCEPT !.pc = IF r.kind = "add" THEN "insert"
                                                     ELSE "delete_many"]
                               ELSE [r EXCEPT !.pc = "done", !.code = 404]]
        /\ UNCHANGED <<docVars, index, qaVars, last_summary, summary_log, processed,
                       graph_run, upload_run, summary_run, ask_run, chats>>

\* add_message: `await message.insert()`.
InsertMessage ==
    \E i \in 1..Len(requests) :
        /\ requests[i].pc = "insert"
        /\ chat_messages' = [chat_messages EXCEPT ![requests[i].chat_id] = Append(@, NewMessage)]
        /\ requests' = [requests EXCEPT ![i].pc = "update"]
        /\ UNCHANGED <<docVars, index, memory, asks, last_qa, memory_origin, last_summary,
                       summary_log, processed, graph_run, upload_run, summary_run, ask_run,
                       chats>>

\* clear_messages: `await Message.find({"chat_id": chat_id}).delete_many()`.
DeleteMessages ==
    \E i \in 1..Len(requests) :
        /\ requests[i].pc = "delete_many"
        /\ chat_messages' = [chat_messages EXCEPT ![requests[i].chat_id] = <<>>]
        /\ requests' = [requests EXCEPT ![i].pc = "update"]
        /\ UNCHANGED <<docVars, index, memory, asks, last_qa, memory_origin, last_summary,
                       summary_log, processed, graph_run, upload_run, summary_run, ask_run,
                       chats>>

\* `await chat.update(...)`: add_message increments message_count in the
\* stored document ($inc), clear_messages sets it to 0 ($set); then the
\* handler returns.
UpdateChat ==
    \E i \in 1..Len(requests) :
        /\ requests[i].pc = "update"
        /\ chats' = [chats EXCEPT ![requests[i].chat_id].message_count =
                        IF requests[i].kind = "add" THEN @ + 1 ELSE 0]
        /\ requests' = [requests EXCEPT ![i].pc = "done", ![i].code = 200]
        /\ UNCHANGED <<docVars, index, qaVars, last_summary, summary_log, processed,
                       graph_run, upload_run, summary_run, ask_run>>

\* No request was received yet; every chat's count matches its messages.
InitChatCollection ==
    /\ chats = [c \in ChatIds |-> NewChat(Len(chat_messages[c]))]
    /\ requests = <<>>

InitMore ==
    /\ upload_run = NoUploadRun
    /\ summary_run = NoSummaryRun
    /\ ask_run = NoAskRun
    /\ InitChatCollection

\* --------------------------------------------------------- specifications
\* One chat with a stored exchange and one without messages.
InitChats ==
    chat_messages = [c \in ChatIds |->
                        IF c = "c1"
                        THEN <<[role |-> "user", content |-> "a"],
                               [role |-> "assistant", content |-> Answer]>>
                        ELSE <<>>]

InitNoAsks ==
    /\ InitChats
    /\ asks = 0
    /\ last_qa = NoQA

InitQAVars ==
    /\ InitNoAsks
    /\ memory = <<>>
    /\ memory_origin = <<>>

InitRest(ids) ==
    /\ last_summary = NoSummaryRequest
    /\ summary_log = [d \in ids |-> NoSummaryLog]
    /\ processed = <<>>
    /\ graph_run = NoRun
    /\ InitMore

InitNoDocs ==
    /\ documents_db = <<>>
    /\ storage = {}
    /\ bg_tasks = <<>>
    /\ files_seen = 0
    /\ last_upload = NoUpload
    /\ last_delete = [id |-> 0, code |-> 0]
    /\ deleted = {}

\* Either storage backend; with the bucket, any set of its operations may be
\* failing.
InitDocs ==
    /\ USE_S3_STORAGE \in BOOLEAN
    /\ s3_faults \in SUBSET S3Ops
    /\ (~USE_S3_STORAGE => s3_faults = {})
    /\ InitNoDocs

Init ==
    /\ InitDocs
    /\ InitQAVars
    /\ index = [d \in 1..MaxDocs |-> 0]
    /\ task_result = [d \in 1..MaxDocs |-> NoResult]
    /\ InitRest(1..MaxDocs)

UploadRequest ==
    /\ \E files \in Batches(MaxDocs - files_seen) : upload_documents(files)
    /\ UNCHANGED <<USE_S3_STORAGE, s3_faults, index, task_result, last_delete, deleted,
                   qaVars, restVars>>

DeleteRequest ==
    /\ \E d \in 1..MaxDocs : delete_document(d)
    /\ UNCHANGED <<USE_S3_STORAGE, s3_faults, index, bg_tasks, task_result,
                   files_seen, last_upload, qaVars, restVars>>

Next == UploadRequest \/ RunBackgroundTask \/ DeleteRequest

Spec == Init /\ [][Next]_vars

\* Upload requests alone, with larger batches.
InitUpload ==
    /\ InitDocs
    /\ InitQAVars
    /\ index = [d \in 1..MaxFiles |-> 0]
    /\ task_result = [d \in 1..MaxFiles |-> NoResult]
    /\ InitRest(1..MaxFiles)

UploadBatch ==
    /\ \E files \in Batches(MaxFiles - files_seen) : upload_documents(files)
    /\ UNCHANGED <<USE_S3_STORAGE, s3_faults, index, task_result, last_delete, deleted,
                   qaVars, restVars>>

NextUpload == UploadBatch

SpecUpload == InitUpload /\ [][NextUpload]_vars

\* The memory of the service when a request arrives, with the chats of its
\* messages: empty, or holding the turn of an earlier request without a chat
\* id, or holding the history and the turn of an earlier request of chat c1.
InitMemories ==
    { [memory |-> <<>>, origin |-> <<>>],
      [memory |-> save_context(<<>>, <<"a">>, Answer), origin |-> <<None, None>>],
      [memory |-> save_context(inject_chat_history(<<>>, "c1", LoadChatHistory("c1")),
                               <<"a">>, Answer),
       origin |-> <<"c1", "c1", "c1">>] }

\* Calls of the document processor alone.
InitProcess ==
    /\ USE_S3_STORAGE = FALSE
    /\ s3_faults = {}
    /\ InitNoDocs
    /\ InitQAVars
    /\ index = [d \in 1..MaxDocs |-> 0]
    /\ task_result = [d \in 1..MaxDocs |-> NoResult]
    /\ InitRest(1..MaxDocs)

NextProcess == ProcessFile

SpecProcess == InitProcess /\ [][NextProcess]_vars

\* The index the question routes work on, filled by earlier uploads: empty, or
\* the first document has no chunk record in it and the others have all of
\* theirs.
QAIndexes ==
    { [d \in 1..MaxDocs |-> 0],
      [d \in 1..MaxDocs |-> IF d = 1 THEN 0 ELSE MaxChunks] }

\* One run of a QAGraphRunner made for any question and chat history, over
\* the index of the question routes.
InitGraph ==
    /\ USE_S3_STORAGE = FALSE
    /\ s3_faults = {}
    /\ InitNoDocs
    /\ InitQAVars
    /\ index \in QAIndexes
    /\ task_result = [d \in 1..MaxDocs |-> NoResult]
    /\ last_summary = NoSummaryRequest
    /\ summary_log = [d \in 1..MaxDocs |-> NoSummaryLog]
    /\ processed = <<>>
    /\ InitMore
    /\ \E q \in Questions, c \in ChatIds :
          graph_run = Runner(q, LoadChatHistory(c), EntryPoint)

NextGraph == RetrieveDocs \/ BuildContext \/ RunLlm \/ ReturnResult

SpecGraph == InitGraph /\ [][NextGraph]_vars

\* Upload and summary requests.
NextSummary == UploadRequest \/ SummaryRequest

SpecSummary == Init /\ [][NextSummary]_vars

\* The question routes, over an index that earlier uploads have filled.
InitQA ==
    /\ USE_S3_STORAGE = FALSE
    /\ s3_faults = {}
    /\ InitNoDocs
    /\ InitNoAsks
    /\ \E m \in InitMemories : memory = m.memory /\ memory_origin = m.origin
    /\ index \in QAIndexes
    /\ task_result = [d \in 1..MaxDocs |-> NoResult]
    /\ InitRest(1..MaxDocs)

NextQA == AskRequest \/ AskDocumentRequest \/ ClearMemoryRequest

SpecQA == InitQA /\ [][NextQA]_vars

\* Everything outside the calls that the specifications below follow.
InitIdle ==
    /\ USE_S3_STORAGE = FALSE
    /\ s3_faults = {}
    /\ InitNoDocs
    /\ InitQAVars
    /\ index = [d \in 1..MaxDocs |-> 0]
    /\ task_result = [d \in 1..MaxDocs |-> NoResult]
    /\ last_summary = NoSummaryRequest
    /\ summary_log = [d \in 1..MaxDocs |-> NoSummaryLog]
    /\ processed = <<>>
    /\ graph_run = NoRun

\* One call of upload_chunks, for every chunk list.
InitBatch ==
    /\ InitIdle
    /\ summary_run = NoSummaryRun
    /\ ask_run = NoAskRun
    /\ InitChatCollection
    /\ \E chunks \in ChunkLists : upload_run = StartUpload(chunks)

NextBatch == EmbedChunks \/ WriteBatch

SpecBatch == InitBatch /\ [][NextBatch]_vars

\* One call of DocumentSummarizer.generate_summary, for every chunk list of
\* up to MaxSummaryChunks chunks.
InitSummarizer ==
    /\ InitIdle
    /\ upload_run = NoUploadRun
    /\ ask_run = NoAskRun
    /\ InitChatCollection
    /\ \E n \in 0..MaxSummaryChunks : \E chunks \in [1..n -> DocLens] :
          summary_run = StartSummary(chunks)

NextSummarizer == MapChunks \/ CollapseRound \/ Finalize

SpecSummarizer == InitSummarizer /\ [][NextSummarizer]_vars

\* One general ask whose chain runs while the background tasks of documents
\* registered before it are pending: every document id has an entry and a
\* task, and the index holds the records of earlier uploads.
InitRace ==
    /\ USE_S3_STORAGE = FALSE
    /\ s3_faults = {}
    /\ \E n \in [1..MaxDocs -> 1..MaxChunks] :
          /\ documents_db = [d \in 1..MaxDocs |-> NewEntry(d, "pdf", FALSE)]
          /\ bg_tasks = [d \in 1..MaxDocs |-> [document_id |-> d, chunks |-> n[d]]]
    /\ storage = { Artifact("local", d) : d \in 1..MaxDocs }
    /\ files_seen = MaxDocs
    /\ last_upload = NoUpload
    /\ last_delete = [id |-> 0, code |-> 0]
    /\ deleted = {}
    /\ InitQAVars
    /\ index \in QAIndexes
    /\ task_result = [d \in 1..MaxDocs |-> NoResult]
    /\ last_summary = NoSummaryRequest
    /\ summary_log = [d \in 1..MaxDocs |-> NoSummaryLog]
    /\ processed = <<>>
    /\ graph_run = NoRun
    /\ upload_run = NoUploadRun
    /\ summary_run = NoSummaryRun
    /\ InitChatCollection
    /\ \E q \in {q \in Questions : ~IsEmptyQuestion(q)}, r \in 0..(MaxDocs * MaxChunks - 1) :
          ask_run = StartAsk(q, r)

NextRace == RetrieveContext \/ RetrieveSources \/ CompleteChain \/ RunBackgroundTask

SpecRace == InitRace /\ [][NextRace]_vars

\* add_message and clear_messages requests, their awaits interleaved.
InitChat ==
    /\ InitIdle
    /\ InitMore

NextChat ==
    ReceiveRequest \/ GetChat \/ InsertMessage \/ DeleteMessages \/ UpdateChat

SpecChat == InitChat /\ [][NextChat]_vars

\* ------------------------------------------------------------- properties
ArtifactsOf(fid) == { a \in storage : a.fid = fid }

Positions(req) == 1..Len(req.files)

FailedEntries(req, fid) == { k \in 1..Len(req.failed_uploads) : req.failed_uploads[k].file = fid }

IsDocument(req, fid) == \E k \in 1..Len(req.documents) : req.documents[k].id = fid

IsTask(fid) == \E k \in 1..Len(bg_tasks) : bg_tasks[k].document_id = fid

\* A valid file: supported extension, readable content, and a storage backend
\* that accepts it.
ValidFile(f) == SupportedExt(f.ext) /\ ~f.corrupt /\ "put" \notin s3_faults

ValidPdf == [ext |-> ".pdf", corrupt |-> FALSE, nchunks |-> 1]

Docx == [ext |-> ".docx", corrupt |-> FALSE, nchunks |-> 0]

\* C1: once the background upload_chunks call of a registered document has
\* completed without a backend error, the document's status is "ready" (and
\* not "error").
C1_ReadyAfterIndexUpload ==
    \A d \in DOMAIN documents_db :
        (task_result[d].ran /\ ~task_result[d].raised) => documents_db[d].status = "ready"

\* C2: when the background index upload of a still-registered document
\* failed, the status endpoint reports status "error" and, as error_message,
\* the message of that failure.
C2_IndexFailureReported ==
    \A d \in DOMAIN documents_db :
        (task_result[d].ran /\ task_result[d].raised) =>
            get_document_status(d) =
                [code |-> 200, document_id |-> d, status |-> "error",
                 error_message |-> task_result[d].msg]

C2_Witness ==
    \E d \in DOMAIN documents_db :
        /\ task_result[d].ran /\ task_result[d].raised
        /\ get_document_status(d).error_message = BatchError

\* C3: in the last upload request, a file with an unsupported extension has no
\* storage artifact, no documents_db entry and no background task, and exactly
\* one failed_uploads entry, which cites the unsupported type, whenever the
\* request was answered; every valid file of an answered request is among the
\* documents; and a batch of valid and unsupported files only is answered with
\* exactly its valid files as documents and its unsupported files as
\* failed_uploads (3 valid PDFs and 1 .docx: 3 documents, 1 failed upload).
C3_UnsupportedRejectedPerFile ==
    LET req == last_upload
        answered == req.status \in {200, 400}
    IN  /\ \A i \in Positions(req) :
              ~SupportedExt(req.files[i].ext) =>
                  /\ ArtifactsOf(req.base + i) = {}
                  /\ req.base + i \notin DOMAIN documents_db
                  /\ ~IsTask(req.base + i)
                  /\ ~IsDocument(req, req.base + i)
                  /\ answered =>
                        /\ Cardinality(FailedEntries(req, req.base + i)) = 1
                        /\ \A k \in FailedEntries(req, req.base + i) :
                              req.failed_uploads[k].reason = UnsupportedReason
        /\ \A i \in Positions(req) :
              (answered /\ ValidFile(req.files[i])) =>
                  /\ IsDocument(req, req.base + i)
                  /\ req.base + i \in DOMAIN documents_db
        /\ (/\ req.files # <<>>
            /\ \A i \in Positions(req) :
                  ValidFile(req.files[i]) \/ ~SupportedExt(req.files[i].ext))
           => /\ answered
              /\ Len(req.documents) = Cardinality({i \in Positions(req) : ValidFile(req.files[i])})
              /\ Len(req.failed_uploads) =
                    Cardinality({i \in Positions(req) : ~SupportedExt(req.files[i].ext)})

C3_Witness ==
    /\ last_upload.files = <<ValidPdf, ValidPdf, Docx, ValidPdf>>
    /\ last_upload.status = 200
    /\ Len(last_upload.documents) = 3
    /\ Len(last_upload.failed_uploads) = 1
    /\ last_upload.failed_uploads[1].reason = UnsupportedReason

\* C4: in the last upload request every file whose extraction failed has a
\* failed_uploads entry, every document of the request whose indexing failed
\* has one, and every file of the batch was processed: it is among the
\* documents or among the failed_uploads of the response.
C4_FailureIsolatedPerFile ==
    LET req == last_upload
    IN  \A i \in Positions(req) :
            /\ (SupportedExt(req.files[i].ext) /\ req.files[i].corrupt)
                   => FailedEntries(req, req.base + i) # {}
            /\ (task_result[req.base + i].ran /\ task_result[req.base + i].raised)
                   => FailedEntries(req, req.base + i) # {}
            /\ IsDocument(req, req.base + i) \/ FailedEntries(req, req.base + i) # {}

\* C5: whenever a failure of a document has been reported (a failed_uploads
\* entry for an error of the pipeline, or status "error" after a failed index
\* upload), no storage artifact of that document exists.
C5_ArtifactsRemovedOnFailure ==
    /\ \A k \in 1..Len(last_upload.failed_uploads) :
           ArtifactsOf(last_upload.failed_uploads[k].file) = {}
    /\ \A d \in DOMAIN documents_db :
           (task_result[d].raised /\ get_document_status(d).status = "error")
               => ArtifactsOf(d) = {}

Blank1 == <<" ", " ">>

\* C6: a question request (ask or ask-about-document) whose question is empty
\* or whitespace-only is answered with an error, having read no chat history,
\* injected nothing into the conversation memory, made no retrieval call and
\* no model call, and leaves the memory as it was.
C6_EmptyQuestionRejectedFirst ==
    [][(asks' # asks /\ (last_qa'.question = <<>> \/ Strip(last_qa'.question) = <<>>))
          => /\ last_qa'.calls = NoCalls
             /\ last_qa'.code >= 400
             /\ memory' = memory]_vars

C6_Witness ==
    /\ last_qa.kind = "doc"
    /\ last_qa.question = Blank1
    /\ last_qa.code >= 400
    /\ last_qa.calls = NoCalls
    /\ memory # <<>>

\* C7: the response to an empty or whitespace-only question has status 400.
C7_EmptyQuestionIsClientError ==
    (last_qa.kind # "none" /\ (last_qa.question = <<>> \/ Strip(last_qa.question) = <<>>))
        => last_qa.code = 400

NoContentAnswer == "Could not generate answer. No document content found."

\* C8: a document-scoped ask with a proper question on a document that has no
\* chunk record in the index is answered with the fixed "no content found"
\* answer and no sources, without a model call.
C8_NoContentShortCircuit ==
    (/\ last_qa.kind = "doc"
     /\ Strip(last_qa.question) # <<>>
     /\ index[last_qa.document_id] = 0)
        => /\ last_qa.code = 200
           /\ last_qa.answer = NoContentAnswer
           /\ last_qa.sources = <<>>
           /\ last_qa.calls.completions = 0

C10_DeletedIsGone ==
    \A d \in deleted :
        /\ ArtifactsOf(d) = {}
        /\ get_document(d).code = 404
        /\ get_document_status(d).code = 404
        /\ get_document_summary(d).code = 404
        /\ d \notin DOMAIN documents_db

\* C11: after delete_document succeeded for an id, no record of the index has
\* that id as its document_id, and no retrieval returns a record of it.
C11_DeletedPurgedFromIndex ==
    \A d \in deleted :
        /\ index[d] = 0
        /\ \A rk \in Rankings :
              \A k \in 1..Len(Retrieve(GeneralRetriever, rk)) :
                  Retrieve(GeneralRetriever, rk)[k].document_id # d

\* C12: every successful summary request for a document returns the summary
\* that the first one returned; generate_summary is called at most once for a
\* document; and a repeated request generates nothing and makes no model call.
C12_SummaryIdempotent ==
    /\ \A d \in DOMAIN summary_log : summary_log[d].generations <= 1
    /\ last_summary.code = 200 =>
           /\ last_summary.summary = summary_log[last_summary.id].first
           /\ last_summary.repeat =>
                  (~last_summary.generated /\ last_summary.completions = 0)

C12_Witness ==
    /\ last_summary.code = 200
    /\ last_summary.repeat
    /\ last_summary.summary = summarize_document("pdf")
    /\ summary_log[last_summary.id].generations = 0

\* C13: an ask that is answered with 200 leaves the question and the answer
\* of that request as the last two messages of the memory, and its response
\* carries the answer text and, as sources, the retrieved chunks in retrieval
\* order, each with its text and its metadata.
C13_TurnSavedAndSourcesReturned ==
    [][(asks' # asks /\ last_qa'.code = 200)
          => /\ Len(memory') >= 2
             /\ memory'[Len(memory') - 1] =
                    Human(Content("question", last_qa'.question, NoHistory, None))
             /\ memory'[Len(memory')] = AI(Content(last_qa'.answer, <<>>, NoHistory, None))
             /\ last_qa'.answer = Answer
             /\ \E rk \in Rankings :
                    last_qa'.sources = Sources(Retrieve(GeneralRetriever, rk))]_vars

C13_Witness ==
    /\ last_qa.kind = "ask"
    /\ last_qa.code = 200
    /\ last_qa.sources # <<>>
    /\ Len(memory) >= 3
    /\ memory[Len(memory)] = AI(Content(Answer, <<>>, NoHistory, None))
    /\ memory[Len(memory) - 1] = Human(Content("question", last_qa.question, NoHistory, None))

\* C14: the chat history given to the model for a request holds no message
\* that a request of a different chat session put into the memory: every
\* message of the memory at the time the prompt is built comes from the chat
\* of the request.
C14_MemoryPerChatSession ==
    [][(asks' # asks /\ last_qa'.calls.completions > 0)
          => LET origin == OriginAfterInject(memory_origin, last_qa'.chat_id,
                                             LoadChatHistory(last_qa'.chat_id))
             IN  /\ Len(origin) = Len(last_qa'.prompt_history)
                 /\ \A k \in 1..Len(origin) : origin[k] = last_qa'.chat_id]_vars

\* The chunks made so far, as pairs of the call and the position in its output.
ChunkPositions ==
    { pk \in (1..Len(processed)) \X (1..MaxSplit) : pk[2] <= Len(processed[pk[1]].chunks) }

\* C15: the k-th chunk (counting from 0) made for a document has chunk_index k
\* and the id "<document_id>_chunk_<k>", so the chunk indexes of a document are
\* 0..n-1 in output order; and no two chunks, of one document or of two,
\* have the same id.
C15_ChunkIdsUnique ==
    /\ \A pk \in ChunkPositions :
           LET p == processed[pk[1]]
               c == p.chunks[pk[2]]
           IN  /\ c.metadata.chunk_index = pk[2] - 1
               /\ c.metadata.document_id = p.document_id
               /\ c.id = Str(p.document_id) \o <<"_", "c", "h", "u", "n", "k", "_">>
                             \o Str(c.metadata.chunk_index)
    /\ \A pk \in ChunkPositions, ql \in ChunkPositions :
           processed[pk[1]].chunks[pk[2]].id = processed[ql[1]].chunks[ql[2]].id => pk = ql

C15_Witness ==
    /\ Len(processed) = 2
    /\ Len(processed[1].chunks) >= 2
    /\ Len(processed[2].chunks) >= 2
    /\ processed[1].file.ext = ".pdf"
    /\ processed[2].file.ext = ".csv"

GraphOrder == <<"retrieve_docs", "build_context", "run_llm">>

\* C16: the nodes a run of run_sync has executed are an initial part of
\* retrieve_docs, build_context, run_llm; a run that reached the end or
\* returned has executed all three, each once, and made one retrieval and
\* one completion; and the question and the chat_history of the state are
\* those the runner was made with.
C16_GraphIsLinear ==
    /\ Len(graph_run.executed) <= Len(GraphOrder)
    /\ graph_run.executed = SubSeq(GraphOrder, 1, Len(graph_run.executed))
    /\ graph_run.node \in {END, "returned"} =>
           /\ graph_run.executed = GraphOrder
           /\ graph_run.calls.retrievals = 1
           /\ graph_run.calls.completions = 1
    /\ graph_run.node \in {"retrieve_docs", "build_context", "run_llm"} =>
           graph_run.executed \o <<graph_run.node>> =
               SubSeq(GraphOrder, 1, Len(graph_run.executed) + 1)
    /\ graph_run.state.question = graph_run.question
    /\ graph_run.state.chat_history = graph_run.chat_history

C16_Witness ==
    /\ graph_run.node = "returned"
    /\ graph_run.executed = GraphOrder
    /\ graph_run.question = <<"a">>
    /\ graph_run.chat_history # NoHistory
    /\ graph_run.result.answer = Answer
    /\ graph_run.result.docs # <<>>

\* C18: when create_context failed on the retrieved documents, build_context
\* made a second, unfiltered retrieval with the question and built the context
\* from it, and the run goes on to the completion: it does not end in an
\* error before the model was invoked.
C18_ContextFallback ==
    graph_run.context_failed =>
        /\ graph_run.calls.retrievals = 2
        /\ graph_run.node = "raised" => graph_run.calls.completions = 1

CompletionFailure == "completion request failed"

\* C17: a request whose model completion failed is answered with an error
\* that quotes the failure, without an answer and without sources; the
\* completion was invoked once; and the memory is what the history injection
\* made of it, with no question and no answer of the request added.
C17_CompletionFailureIsTerminal ==
    [][(asks' # asks /\ last_qa'.detail.cause = CompletionFailure)
          => /\ last_qa'.code = 500
             /\ last_qa'.answer = None
             /\ last_qa'.sources = <<>>
             /\ last_qa'.calls.completions = 1
             /\ last_qa'.calls.saves = 0
             /\ memory' = inject_chat_history(memory, last_qa'.chat_id,
                                              LoadChatHistory(last_qa'.chat_id))
             /\ \A k \in 1..Len(memory') :
                    memory'[k] = Human(Content("question", last_qa'.question, NoHistory, None))
                        => k <= Len(memory) /\ memory[k] = memory'[k]]_vars

C17_Witness ==
    /\ last_qa.kind = "ask"
    /\ last_qa.detail.cause = CompletionFailure
    /\ last_qa.code = 500
    /\ last_qa.calls.completions = 1
    /\ last_qa.context.docs # <<>>
    /\ memory # <<>>

\* The one message an injected history leaves in the memory.
InjectedHistory(chat_id) ==
    <<Human(Content("history", <<>>, LoadChatHistory(chat_id), None))>>

\* C19: a request that comes with a non-empty chat history and reaches the
\* retrieval finds the memory holding that history as its only message: this
\* is the history given to the model, and after the request the memory holds
\* that message alone, or that message and the turn of the request.
C19_InjectionResetsMemory ==
    [][(/\ asks' # asks
        /\ last_qa'.calls.retrievals > 0
        /\ LoadChatHistory(last_qa'.chat_id) # NoHistory)
          => /\ last_qa'.calls.completions > 0 =>
                    last_qa'.prompt_history = InjectedHistory(last_qa'.chat_id)
             /\ \/ memory' = InjectedHistory(last_qa'.chat_id)
                \/ memory' = save_context(InjectedHistory(last_qa'.chat_id),
                                          last_qa'.question, last_qa'.answer)
             /\ \A k \in 1..Len(memory_origin') :
                    memory_origin'[k] = last_qa'.chat_id]_vars

C19_Witness ==
    /\ last_qa.chat_id = "c1"
    /\ last_qa.code = 200
    /\ last_qa.prompt_history = InjectedHistory("c1")
    /\ last_qa.calls.retrievals > 0
    /\ Len(memory) = 3

\* C20: create_context of an empty result list is the sentence "No relevant
\* documents found."; an ask over an index without records that is answered
\* has invoked the model once with that sentence as its context and returns
\* the answer with no sources; and such an ask fails only when the search or
\* the completion failed.
C20_EmptyContextIsAnswered ==
    /\ create_context(<<>>).text = NoRelevant
    /\ (last_qa.kind = "ask" /\ Strip(last_qa.question) # <<>> /\ IndexRecords = <<>>)
          => /\ last_qa.code = 200 =>
                    /\ last_qa.context.text = NoRelevant
                    /\ last_qa.calls.completions = 1
                    /\ last_qa.answer = Answer
                    /\ last_qa.sources = <<>>
             /\ last_qa.calls.completions = 1 => last_qa.context.text = NoRelevant
             /\ last_qa.code # 200 =>
                    last_qa.detail.cause \in {"search request failed", CompletionFailure}

C20_Witness ==
    /\ last_qa.kind = "ask"
    /\ last_qa.code = 200
    /\ last_qa.context.text = NoRelevant
    /\ last_qa.sources = <<>>
    /\ last_qa.answer = Answer
    /\ last_qa.calls.completions = 1
    /\ IndexRecords = <<>>

\* ------------------------------------------------------------------------
\* The batches submitted so far, end to end.
RECURSIVE Flatten(_)
Flatten(batches) ==
    IF batches = <<>> THEN <<>> ELSE Head(batches) \o Flatten(Tail(batches))

ValidChunks(chunks) == (1..chunks.n) \ (chunks.no_text \cup chunks.no_id)

\* C21: upload_chunks submits the valid records in consecutive batches of at
\* most 100 records, one backend write per batch, one after the other and in
\* the order of the input: every batch submitted holds between 1 and 100
\* records, every batch before the last submitted one holds exactly 100, the
\* batches end to end list valid chunks in increasing input position without
\* gap from the first valid chunk on, and when the call returns every valid
\* chunk lies in exactly one batch, every batch was written, and no invalid
\* chunk lies in any batch.
C21_BatchesConsecutive ==
    LET run == upload_run
        flat == Flatten(run.submitted)
        valid == ValidChunks(run.chunks)
    IN  /\ \A k \in 1..Len(run.submitted) :
              /\ Len(run.submitted[k]) \in 1..BatchSize
              /\ k < Len(run.submitted) => Len(run.submitted[k]) = BatchSize
        /\ \A j \in 1..Len(flat) :
              /\ flat[j] \in valid
              /\ Cardinality({p \in valid : p < flat[j]}) = j - 1
        /\ run.pc = "returned" =>
              /\ \A p \in valid :
                    Cardinality({kj \in (1..Len(run.submitted)) \X (1..BatchSize) :
                                    /\ kj[2] <= Len(run.submitted[kj[1]])
                                    /\ run.submitted[kj[1]][kj[2]] = p}) = 1
              /\ run.written = run.submitted

\* A call that returned after two or more batches, having skipped a chunk.
C21_Witness ==
    /\ upload_run.pc = "returned"
    /\ Len(upload_run.submitted) >= 2
    /\ Len(upload_run.submitted[Len(upload_run.submitted)]) < BatchSize
    /\ upload_run.chunks.no_id # {}
    /\ upload_run.chunks.no_text # {}

\* C22: when the write of batch N fails, the batches 1..N-1 stay written, the
\* failed batch is the last one submitted (no later batch is submitted and the
\* failed one is not submitted again), and the failure leaves upload_chunks
\* as a raised exception.
C22_FailureStopsUpload ==
    upload_run.error.message = BatchError =>
        LET N == Len(upload_run.submitted)
        IN  /\ upload_run.pc = "raised"
            /\ N = upload_run.i \div BatchSize + 1
            /\ upload_run.submitted[N] = batch_slice(upload_run.documents, upload_run.i)
            /\ upload_run.written = SubSeq(upload_run.submitted, 1, N - 1)

\* The write of a second or later batch failed.
C22_Witness ==
    /\ upload_run.error.message = BatchError
    /\ upload_run.pc = "raised"
    /\ Len(upload_run.submitted) >= 2
    /\ Len(upload_run.written) = Len(upload_run.submitted) - 1

\* C23: when a batch write fails, the error that upload_chunks reports names
\* the batch that failed.
C23_ErrorNamesBatch ==
    upload_run.error.message = BatchError =>
        upload_run.error.batch = Len(upload_run.submitted)

\* ------------------------------------------------------------------------
\* C24: the collapse loop of the summarizer stops within the configured round
\* ceiling whether or not the working list shrinks: whenever the loop has run
\* a round and the working list is still over the budget, a round ceiling is
\* configured and the rounds run so far are below it; and a call that
\* returned the chain's summary ran the final step exactly once.
C24_CollapseWithinCeiling ==
    /\ (summary_run.pc = "reduce" /\ summary_run.rounds >= 1
            /\ Total(summary_run.docs) > token_max)
          => (collapse_max_retries # NoCeiling
                 /\ summary_run.rounds < collapse_max_retries)
    /\ (summary_run.pc = "returned" /\ summary_run.result = EnhancedSummary)
          => summary_run.finalized = 1

\* The message the empty-input case is expected to end with.
NoDocumentsProvided == "No documents provided."

\* C25: a generate_summary call with an empty chunk list ends with a message
\* saying that no documents were provided, without any model call.
C25_EmptyInputFailsFast ==
    (summary_run.pc = "returned" /\ summary_run.chunks = <<>>)
       => (summary_run.result = NoDocumentsProvided /\ summary_run.llm_calls = 0)

\* ------------------------------------------------------------------------
Statuses == {"processing", "ready", "error"}

\* C26: the status of a registered document is always one of "processing",
\* "ready" and "error"; a step changes the status of a document only from
\* "processing" to "ready" or from "processing" to "error", so a "ready" or
\* "error" status never changes again.
C26_StatusTransitions ==
    [][/\ \A d \in DOMAIN documents_db : documents_db[d].status \in Statuses
       /\ \A d \in DOMAIN documents_db' : documents_db'[d].status \in Statuses
       /\ \A d \in DOMAIN documents_db \cap DOMAIN documents_db' :
             documents_db'[d].status # documents_db[d].status
                => /\ documents_db[d].status = "processing"
                   /\ documents_db'[d].status \in {"ready", "error"}]_vars

\* A document whose background task moved it out of "processing", next to one
\* still in "processing".
C26_Witness ==
    \E d, e \in DOMAIN documents_db :
        /\ task_result[d].ran
        /\ documents_db[d].status = "error"
        /\ documents_db[e].status = "processing"

\* C27: a document that was deleted is never registered again, whether its
\* background upload is still pending or has completed since: the status
\* lookup and the document lookup of a deleted id answer not-found.
C27_DeletedStaysDeleted ==
    \A d \in deleted :
        /\ d \notin DOMAIN documents_db
        /\ get_document_status(d) = NotFound
        /\ get_document(d) = NotFound

\* The background task of a document ran after the document was deleted.
C27_Witness ==
    \E d \in deleted :
        /\ task_result[d].ran
        /\ task_result[d].after_delete
        /\ d \notin DOMAIN documents_db

\* C28: for every registered document, the status in the response of
\* get_document and in its entry of list_documents is the stored status, the
\* one the status endpoint reports.
C28_StatusConsistentAcrossRoutes ==
    \A d \in DOMAIN documents_db :
        /\ get_document(d).status = get_document_status(d).status
        /\ list_documents[d].status = get_document_status(d).status

\* ------------------------------------------------------------------------
\* C29: the sources an ask returns are the chunks its context was built
\* from, in the same order, whatever the background uploads write to the
\* index while the chain runs.
C29_SourcesAreContextChunks ==
    ask_run.pc = "returned" =>
        /\ Len(ask_run.sources) = Len(ask_run.context.docs)
        /\ \A k \in 1..Len(ask_run.sources) :
              /\ ask_run.sources[k].metadata = ask_run.context.docs[k]
              /\ ask_run.sources[k].text = PageContent(ask_run.context.docs[k])

\* ------------------------------------------------------------------------
\* C30: once every request received has completed, the message_count of
\* every chat is the number of its stored messages, whatever the order in
\* which the steps of the add_message and clear_messages requests ran.
C30_MessageCountMatches ==
    (\A i \in 1..Len(requests) : requests[i].pc = "done")
        => \A c \in DOMAIN chats : chats[c].message_count = Len(chat_messages[c])

====
